---- MODULE Spec2Model ----
(***************************************************************************)
(* Model of the two pattern converters of the repository:                  *)
(*   src/ptn2midi.py                 (SP-404SX,   device = "SX")           *)
(*   src/sp404mkii_sample_extract.py (SP-404MKII, device = "MKII")         *)
(* One run of the program is one behaviour: get_pad_info, get_pattern,     *)
(* the note loop of create_midi_file, its template loop and the write of   *)
(* the MIDI file, then create_sfz (MKII) or create_soundfont_file (SX).     *)
(*                                                                         *)
(* File names are sequences of one-character strings.  Times are kept as   *)
(* the exact numerator over TICKS_PER_QUARTER_NOTE (delay / PPQ summed up  *)
(* is  (sum of delay) / PPQ ); the rounding of Python floats is not        *)
(* modelled.                                                               *)
(***************************************************************************)
EXTENDS Integers, Sequences, FiniteSets, TLC

VARIABLES
    device,          \* which of the two programs runs: "SX" or "MKII"
    selected_pad,    \* argv: the pattern name, e.g. <<"B","1","1">>
    padconf,         \* the pad-configuration file, as its decoded 32-byte slots
    ptn_file,        \* the bytes of the pattern file
    smpl_dir,        \* the sample directory: a set of directory entries
    pc,              \* position of the program
    error,           \* the exception that ended the run, "" when none
    ptn_filename,    \* name of the pattern file that get_pattern opened
    pad_layout,      \* pads, the result of get_pad_info
    notes,           \* the result of get_pattern
    idx,             \* 1-based position of the note loop
    note_path_to_pitch,   \* dict in insertion order: sequence of [path, pitch]
    next_available_pitch,
    time_in_beats_for_next_note,  \* numerator over TICKS_PER_QUARTER_NOTE
    events,          \* the addNote calls, in call order
    tmp_files,       \* /tmp: sequence of [name, clip] written by the trim
    cwd_files,       \* working directory: names of the files written there
    stdout,          \* what the note loop printed, one record per note
    sfz              \* the <region> lines create_sfz printed, in order

vars == <<device, selected_pad, padconf, ptn_file, smpl_dir, pc, error,
          ptn_filename, pad_layout, notes, idx, note_path_to_pitch,
          next_available_pitch, time_in_beats_for_next_note, events,
          tmp_files, cwd_files, stdout, sfz>>

(***************************************************************************)
(* Bounds of the model.                                                    *)
(***************************************************************************)
MaxNotes == 2        \* longest pattern enumerated exhaustively
SweepLen == 93       \* length of the pattern that triggers pads 1..SweepLen
NFrames == 500       \* native frame count of every sample file

(***************************************************************************)
(* Program constants.                                                      *)
(***************************************************************************)
TOTAL_BANKS == 10
PADS_PER_BANK_SX == 12
PADS_PER_BANK_MKII == 16
PPQ == 96
TICKS_PER_QUARTER_NOTE_MKII == 480
BYTES_PER_NOTE == 8
BasePitch == 36
RestPad == 128
PadBase == 46
AltBankCount == 5
TrimBias == 512

PADS_PER_BANK == IF device = "SX" THEN PADS_PER_BANK_SX ELSE PADS_PER_BANK_MKII

TICKS_PER_QUARTER_NOTE == IF device = "SX" THEN PPQ ELSE TICKS_PER_QUARTER_NOTE_MKII

(***************************************************************************)
(* Characters: ord, chr, upper, lower over ASCII 45..122 (92 and 96 are    *)
(* spelled out, they occur in no file name).                               *)
(***************************************************************************)
Chars ==
    << "-", ".", "/", "0", "1", "2", "3", "4", "5", "6", "7", "8", "9",
       ":", ";", "<", "=", ">", "?", "@",
       "A", "B", "C", "D", "E", "F", "G", "H", "I", "J", "K", "L", "M",
       "N", "O", "P", "Q", "R", "S", "T", "U", "V", "W", "X", "Y", "Z",
       "[", "BACKSLASH", "]", "^", "_", "GRAVE",
       "a", "b", "c", "d", "e", "f", "g", "h", "i", "j", "k", "l", "m",
       "n", "o", "p", "q", "r", "s", "t", "u", "v", "w", "x", "y", "z" >>

CharSet == {Chars[k] : k \in 1..Len(Chars)}

\* ord(c): Chars[1] is "-", code 45
OrdTable == [c \in CharSet |-> 44 + CHOOSE k \in 1..Len(Chars) : Chars[k] = c]

Ord(c) == OrdTable[c]

Chr(n) == Chars[n - 44]

UpperTable == [c \in CharSet |->
                  IF OrdTable[c] >= OrdTable["a"] /\ OrdTable[c] <= OrdTable["z"]
                  THEN Chars[OrdTable[c] - 32 - 44] ELSE c]

LowerTable == [c \in CharSet |->
                  IF OrdTable[c] >= OrdTable["A"] /\ OrdTable[c] <= OrdTable["Z"]
                  THEN Chars[OrdTable[c] + 32 - 44] ELSE c]

\* c.upper(), c.lower()
Upper(c) == UpperTable[c]

Lower(c) == LowerTable[c]

UpperStr(s) == [i \in 1..Len(s) |-> Upper(s[i])]

LowerStr(s) == [i \in 1..Len(s) |-> Lower(s[i])]

EndsWith(s, suffix) ==
    /\ Len(suffix) <= Len(s)
    /\ SubSeq(s, Len(s) - Len(suffix) + 1, Len(s)) = suffix

(***************************************************************************)
(* Decimal formatting and parsing: str(), '%07d', '{:02d}', zfill, int().  *)
(***************************************************************************)
RECURSIVE NatStr(_)
NatStr(n) == IF n < 10 THEN <<Chr(Ord("0") + n)>>
             ELSE NatStr(n \div 10) \o <<Chr(Ord("0") + (n % 10))>>

IntStr(n) == IF n < 0 THEN <<"-">> \o NatStr(-n) ELSE NatStr(n)

RECURSIVE Zeros(_)
Zeros(k) == IF k <= 0 THEN <<>> ELSE <<"0">> \o Zeros(k - 1)

\* '%0wd' % n  and  f'{n:0wd}'  and  str(n).zfill(w)
FormatD(n, w) ==
    IF n < 0 THEN <<"-">> \o Zeros(w - 1 - Len(NatStr(-n))) \o NatStr(-n)
    ELSE Zeros(w - Len(NatStr(n))) \o NatStr(n)

RECURSIVE ParseInt(_)
\* int(s) for a non-empty string of decimal digits
ParseInt(s) == IF Len(s) = 0 THEN 0
               ELSE 10 * ParseInt(SubSeq(s, 1, Len(s) - 1)) + (Ord(s[Len(s)]) - Ord("0"))

\* pathlib's with_suffix('.wav') on a name whose suffix has three letters
WithSuffixWav(name) == SubSeq(name, 1, Len(name) - 4) \o <<".", "w", "a", "v">>

Suffix(name) == SubSeq(name, Len(name) - 3, Len(name))

(***************************************************************************)
(* The pure functions of the program.                                      *)
(***************************************************************************)
\* struct.unpack('>BBBBBBH', note_data) into the Note namedtuple
Unpack(note_data) ==
    [delay       |-> note_data[1],
     pad         |-> note_data[2],
     bank_switch |-> note_data[3],
     unknown2    |-> note_data[4],
     velocity    |-> note_data[5],
     unknown3    |-> note_data[6],
     length      |-> note_data[7] * 256 + note_data[8]]

\* the function with the last branch returning a sample number instead of
\* ending the run
notetuple_to_sample_number_guess(note) ==
    IF note.bank_switch = 65 \/ note.bank_switch = 1
    THEN <<note.pad - PadBase + PADS_PER_BANK * AltBankCount>>
    ELSE <<note.pad - PadBase>>

\* <<n>> when the function returns n, << >> when it ends in sys.exit(1)
notetuple_to_sample_number(note) ==
    IF note.bank_switch = 64 \/ note.bank_switch = 0
    THEN <<note.pad - PadBase>>
    ELSE IF note.bank_switch = 65 \/ note.bank_switch = 1
    THEN <<note.pad - PadBase + PADS_PER_BANK * AltBankCount>>
    ELSE << >>

pad_number_to_filename(pad_number) ==
    LET n == pad_number - 1
        bank_number == n \div PADS_PER_BANK
        bank_pad_number == (n % PADS_PER_BANK) + 1
    IN  IF device = "SX"
        THEN <<Chr(Ord("A") + bank_number)>> \o FormatD(bank_pad_number, 7)
        ELSE <<"B", "A", "N", "K">> \o IntStr(bank_number) \o <<"-">>
                 \o FormatD(bank_pad_number, 2)

\* the function with the SX program's literal 12 for both devices
pattern_name_to_filename_twelve(pattern_name) ==
    LET x == (Ord(Upper(pattern_name[1])) - Ord("A")) * 12
        y == ParseInt(SubSeq(pattern_name, 2, Len(pattern_name))) % PADS_PER_BANK
    IN  <<"P", "T", "N">> \o FormatD(x + y, 5) \o <<".", "B", "I", "N">>

pattern_name_to_filename(pattern_name) ==
    LET x == (Ord(Upper(pattern_name[1])) - Ord("A"))
                 * (IF device = "SX" THEN 12 ELSE PADS_PER_BANK)
        y == ParseInt(SubSeq(pattern_name, 2, Len(pattern_name))) % PADS_PER_BANK
    IN  <<"P", "T", "N">> \o FormatD(x + y, 5) \o <<".", "B", "I", "N">>

padtuple_to_trim_samplenums(pad) ==
    <<(pad.user_start - TrimBias) \div 2, (pad.user_end - TrimBias) \div 2>>

\* the test of the glob filter in create_midi_file on one directory name
NameMatches(name, note_filename) ==
    IF device = "SX"
    THEN \/ EndsWith(name, note_filename \o <<".", "W", "A", "V">>)
         \/ EndsWith(name, note_filename \o <<".", "A", "I", "F">>)
    ELSE \/ EndsWith(LowerStr(name), LowerStr(note_filename) \o <<".", "w", "a", "v">>)
         \/ EndsWith(LowerStr(name), LowerStr(note_filename) \o <<".", "a", "i", "f">>)
         \/ EndsWith(LowerStr(name), LowerStr(note_filename) \o <<".", "s", "m", "p">>)

\* the directory entries the filter lets through; next() takes the first in
\* the order of the directory listing, which is any of them
Matching(dir, note_filename) == {e \in dir : NameMatches(e.name, note_filename)}

Min(a, b) == IF a < b THEN a ELSE b

\* the window trim_wav_by_frame_numbers hands to setpos() and readframes()
TrimWindow(start_frame, end_frame, nframes) ==
    IF device = "SX"
    THEN [setpos |-> start_frame, readframes |-> end_frame - start_frame]
    ELSE IF end_frame = start_frame \/ start_frame < 0 \/ end_frame < 0
    THEN [setpos |-> 0, readframes |-> Min(nframes - 0, nframes)]
    ELSE [setpos |-> start_frame, readframes |-> Min(end_frame - start_frame, nframes)]

\* the name under /tmp that the trimmed clip of note_path is written to
OutfileName(note_path) == IF device = "SX" THEN note_path ELSE WithSuffixWav(note_path)

\* note_path_to_pitch as a dict: membership and lookup
HasPath(map, path) == \E k \in 1..Len(map) : map[k].path = path

PitchOf(map, path) == map[CHOOSE k \in 1..Len(map) : map[k].path = path].pitch

\* the assignment without its "not in" test: a known path is given the next
\* pitch again
AssignPitch_unguarded(map, next_pitch, path) ==
    IF HasPath(map, path)
    THEN [k \in 1..Len(map) |->
             IF map[k].path = path THEN [path |-> path, pitch |-> next_pitch] ELSE map[k]]
    ELSE Append(map, [path |-> path, pitch |-> next_pitch])

\* lines "if note_path not in note_path_to_pitch: ..." of the note loop
AssignPitch(map, next_pitch, path) ==
    IF HasPath(map, path) THEN map
    ELSE Append(map, [path |-> path, pitch |-> next_pitch])

NextPitch(map, next_pitch, path) ==
    IF HasPath(map, path) THEN next_pitch ELSE next_pitch + 1

\* the clock with the delay subtracted
AdvanceTime_backwards(t, note) == t - note.delay

\* "time_in_beats_for_next_note += delay", in units of 1/TICKS_PER_QUARTER_NOTE
AdvanceTime(t, note) == t + note.delay

\* the test with the pad count of the device as the rest code
IsEmptyNote_offend(note) == note.pad = TOTAL_BANKS * PADS_PER_BANK

IsEmptyNote(note) == note.pad = RestPad

(***************************************************************************)
(* Inputs of a run: the pattern name, the three inputs on the card.        *)
(***************************************************************************)
PatternNames == { <<"A", "1">>, <<"B", "1", "1">>, <<"B", "1">> }

\* 8-byte note records: delay, pad, bank_switch, unknown2, velocity,
\* unknown3, length (2 bytes, big-endian)
NoteA == <<2, 47, 0, 0, 100, 0, 0, 96>>

NoteB == <<0, 48, 65, 0, 100, 0, 1, 0>>

NoteRest == <<1, 128, 0, 0, 0, 0, 0, 0>>

NoteBad == <<1, 47, 2, 0, 100, 0, 0, 96>>

NoteLow == <<3, 46, 0, 0, 100, 0, 0, 48>>

NoteAlt == <<1, 46, 1, 0, 100, 0, 0, 48>>

NoteRestBad == <<1, 128, 2, 0, 0, 0, 0, 0>>

\* the note whose pad code is banks * pads-per-bank
NoteOffEnd(dev) ==
    <<1, TOTAL_BANKS * (IF dev = "SX" THEN PADS_PER_BANK_SX ELSE PADS_PER_BANK_MKII),
      64, 0, 100, 0, 0, 48>>

Catalog(dev) ==
    {NoteA, NoteB, NoteRest, NoteBad, NoteLow, NoteAlt, NoteRestBad, NoteOffEnd(dev)}

RECURSIVE SeqsUpTo(_, _)
SeqsUpTo(S, n) ==
    IF n = 0 THEN { << >> }
    ELSE LET shorter == SeqsUpTo(S, n - 1)
         IN  shorter \cup {Append(q, x) : q \in shorter, x \in S}

RECURSIVE Flatten(_)
Flatten(records) ==
    IF Len(records) = 0 THEN << >> ELSE Head(records) \o Flatten(Tail(records))

\* t trailer bytes; byte 9 (counted from 0) is the bar count
Trailer(t) == [k \in 1..t |-> IF k = 10 THEN 1 ELSE 0]

\* well-formed files of up to MaxNotes notes, and short files of other sizes
PtnFiles(dev) ==
    {Flatten(p) \o Trailer(16) : p \in SeqsUpTo(Catalog(dev), MaxNotes)}
    \cup {Flatten(p) \o Trailer(t) : p \in SeqsUpTo(Catalog(dev), 1), t \in {0, 9, 10, 17}}

\* one note per pad code from 47 upwards, the rest code 128 left out
SweepNote(k) == <<1, IF PadBase + k < RestPad THEN PadBase + k ELSE PadBase + k + 1,
                  0, 0, 100, 0, 0, 48>>

SweepFile == Flatten([k \in 1..SweepLen |-> SweepNote(k)]) \o Trailer(16)

File(name) == [name |-> name, isfile |-> TRUE]

Directory(name) == [name |-> name, isfile |-> FALSE]

DirsSX ==
    { {File(<<"A","0","0","0","0","0","0","1",".","W","A","V">>),
       File(<<"F","0","0","0","0","0","0","2",".","W","A","V">>),
       File(<<"G","0","0","0","0","0","0","2",".","A","I","F">>),
       File(<<"@","0","0","0","0","0","1","2",".","W","A","V">>)},
      { },
      {File(<<"A","0","0","0","0","0","0","1",".","W","A","V">>),
       File(<<"X","A","0","0","0","0","0","0","1",".","A","I","F">>),
       File(<<"F","0","0","0","0","0","0","2",".","W","A","V">>)},
      {Directory(<<"A","0","0","0","0","0","0","1",".","W","A","V">>),
       File(<<"F","0","0","0","0","0","0","2",".","W","A","V">>)},
      {File(<<"A","0","0","0","0","0","0","1",".","w","a","v">>),
       File(<<"F","0","0","0","0","0","0","2",".","A","I","F">>)} }

DirsMKII ==
    { {File(<<"B","A","N","K","0","-","0","1",".","w","a","v">>),
       File(<<"B","A","N","K","5","-","0","2",".","W","A","V">>),
       File(<<"B","A","N","K","7","-","0","2",".","a","i","f">>),
       File(<<"B","A","N","K","-","1","-","1","6",".","w","a","v">>)},
      { },
      {File(<<"B","A","N","K","0","-","0","1",".","S","M","P">>),
       File(<<"B","A","N","K","5","-","0","2",".","w","a","v">>)},
      {Directory(<<"B","A","N","K","0","-","0","1",".","w","a","v">>),
       File(<<"B","A","N","K","5","-","0","2",".","w","a","v">>)},
      {File(<<"b","a","n","k","0","-","0","1",".","W","A","V">>),
       File(<<"B","A","N","K","0","-","0","1",".","a","i","f">>),
       File(<<"B","A","N","K","5","-","0","2",".","s","m","p">>)} }

Dirs(dev) == IF dev = "SX" THEN DirsSX ELSE DirsMKII

\* user_start, user_end of pad 1; the other fields of a slot are not read
TrimChoices ==
    { [user_start |-> 512, user_end |-> 1024],
      [user_start |-> 512, user_end |-> 512],
      [user_start |-> 1024, user_end |-> 512],
      [user_start |-> 0, user_end |-> 1024],
      [user_start |-> 512, user_end |-> 512 + 4 * NFrames],
      [user_start |-> 512 + 4 * NFrames, user_end |-> 512 + 6 * NFrames] }

PadCount(dev) == TOTAL_BANKS * (IF dev = "SX" THEN PADS_PER_BANK_SX ELSE PADS_PER_BANK_MKII)

Padconfs(dev) ==
    {[k \in 1..PadCount(dev) |->
         IF k = 1 THEN t ELSE [user_start |-> 512, user_end |-> 1024]] : t \in TrimChoices}

SweepDir(dev) ==
    {File((IF dev = "SX" THEN <<Chr(Ord("A") + ((n - 1) \div 12))>> \o FormatD(((n - 1) % 12) + 1, 7)
           ELSE <<"B","A","N","K">> \o IntStr((n - 1) \div 16) \o <<"-">>
                    \o FormatD(((n - 1) % 16) + 1, 2))
          \o (IF dev = "SX" THEN <<".", "W", "A", "V">> ELSE <<".", "w", "a", "v">>))
        : n \in 1..(SweepLen + 1)}

(***************************************************************************)
(* The state after the program has started, before get_pad_info.           *)
(***************************************************************************)
Init ==
    /\ device \in {"SX", "MKII"}
    /\ \/ /\ selected_pad \in PatternNames
          /\ padconf \in Padconfs(device)
          /\ ptn_file \in PtnFiles(device)
          /\ smpl_dir \in Dirs(device)
       \/ /\ selected_pad = <<"A", "1">>
          /\ padconf = [k \in 1..PadCount(device) |-> [user_start |-> 512, user_end |-> 1024]]
          /\ ptn_file = SweepFile
          /\ smpl_dir = SweepDir(device)
    /\ pc = "get_pad_info"
    /\ error = ""
    /\ ptn_filename = << >>
    /\ pad_layout = << >>
    /\ notes = << >>
    /\ idx = 1
    /\ note_path_to_pitch = << >>
    /\ next_available_pitch = BasePitch
    /\ time_in_beats_for_next_note = 0
    /\ events = << >>
    /\ tmp_files = { }
    /\ cwd_files = { }
    /\ stdout = << >>
    /\ sfz = << >>

inputs == <<device, selected_pad, padconf, ptn_file>>

loop_state == <<idx, note_path_to_pitch, next_available_pitch,
                time_in_beats_for_next_note, events, stdout>>

(***************************************************************************)
(* get_pad_info: pads[i + 1] is the i-th slot of the file.                 *)
(***************************************************************************)
GetPadInfo ==
    /\ pc = "get_pad_info"
    /\ pad_layout' = [k \in 1..(TOTAL_BANKS * PADS_PER_BANK) |-> padconf[k]]
    /\ pc' = "get_pattern"
    /\ UNCHANGED <<inputs, sfz, smpl_dir, error, ptn_filename, notes, loop_state,
                   tmp_files, cwd_files>>

(***************************************************************************)
(* get_pattern                                                             *)
(***************************************************************************)
\* (ptn_filesize // BYTES_PER_NOTE) - 2, the bound of the while loop
NoteCount(ptn_filesize) == (ptn_filesize \div BYTES_PER_NOTE) - 2

\* the notes the while loop appends: one per 8 bytes read
ReadNotes(file) ==
    LET n == NoteCount(Len(file))
    IN  [k \in 1..(IF n < 0 THEN 0 ELSE n) |->
            Unpack(SubSeq(file, BYTES_PER_NOTE * (k - 1) + 1, BYTES_PER_NOTE * k))]

\* f.read(16) after the loop: what is left of the file, at most 16 bytes
ReadTrailer(file) ==
    LET pos == BYTES_PER_NOTE * Len(ReadNotes(file))
    IN  SubSeq(file, pos + 1, Min(Len(file), pos + 16))

\* struct.unpack('b', ptn_trailer[9:10]) needs exactly one byte
TrailerUnpacks(file) == Len(ReadTrailer(file)) >= 10

GetPattern ==
    /\ pc = "get_pattern"
    /\ TrailerUnpacks(ptn_file)
    /\ ptn_filename' = pattern_name_to_filename(selected_pad)
    /\ notes' = ReadNotes(ptn_file)
    /\ pc' = "for_notes"
    /\ UNCHANGED <<inputs, sfz, smpl_dir, error, pad_layout, loop_state, tmp_files, cwd_files>>

GetPatternFails ==
    /\ pc = "get_pattern"
    /\ ~TrailerUnpacks(ptn_file)
    /\ ptn_filename' = pattern_name_to_filename(selected_pad)
    /\ error' = "struct.error"
    /\ pc' = "crashed"
    /\ UNCHANGED <<inputs, sfz, smpl_dir, pad_layout, notes, loop_state, tmp_files, cwd_files>>

(***************************************************************************)
(* create_midi_file: the loop over the notes.  One action is one pass of   *)
(* the loop body for notes[idx], named after the way the pass ends.        *)
(***************************************************************************)
InLoop == pc = "for_notes" /\ idx <= Len(notes)

\* notetuple_to_note_filename
notetuple_to_note_filename(note) ==
    pad_number_to_filename(notetuple_to_sample_number(note)[1])

Resolvable(note) == ~IsEmptyNote(note) /\ notetuple_to_sample_number(note) # << >>

\* one record per pass of the loop: the note, what was printed for it and the
\* clock before and after the pass
Printed(note, path, pitch, outcome, next_time, n_events, n_pitches) ==
    [note          |-> note,
     sample_number |-> IF IsEmptyNote(note) THEN << >> ELSE notetuple_to_sample_number(note),
     note_path     |-> path,
     pitch         |-> pitch,
     outcome       |-> outcome,
     time          |-> time_in_beats_for_next_note,
     next_time     |-> next_time,
     n_events      |-> n_events,
     n_pitches     |-> n_pitches]

\* os.path.isfile(path) for a path in the sample directory
IsFile(dir, path) == \E e \in dir : e.name = path /\ e.isfile

\* the sox call of trim_wav_by_frame_numbers writes a .wav next to a .smp
IsSmp(name) == device = "MKII" /\ EndsWith(LowerStr(name), <<".", "s", "m", "p">>)

AfterSox(dir, name) ==
    IF IsSmp(name)
    THEN {e \in dir : e.name # WithSuffixWav(name)} \cup {File(WithSuffixWav(name))}
    ELSE dir

\* in_file.setpos(pos) raises Error outside 0..nframes
SetposFails(window, nframes) == window.setpos < 0 \/ window.setpos > nframes

\* the window of the pad a note triggers
WindowOf(note) ==
    LET frames == padtuple_to_trim_samplenums(pad_layout[notetuple_to_sample_number(note)[1]])
    IN  [start_frame |-> frames[1], end_frame |-> frames[2]]
        @@ TrimWindow(frames[1], frames[2], NFrames)

\* opening the outfile "wb" replaces the file of that name
WriteTmp(files, note_path, window, written) ==
    {f \in files : f.name # OutfileName(note_path)}
    \cup {[name |-> OutfileName(note_path), written |-> written] @@ window}

SkipEmptyNote ==
    /\ InLoop
    /\ IsEmptyNote(notes[idx])
    /\ time_in_beats_for_next_note' = AdvanceTime(time_in_beats_for_next_note, notes[idx])
    /\ idx' = idx + 1
    /\ stdout' = Append(stdout, Printed(notes[idx], << >>, 0, "skipping empty note",
                                        time_in_beats_for_next_note', Len(events),
                                        Len(note_path_to_pitch)))
    /\ UNCHANGED <<inputs, sfz, smpl_dir, pc, error, ptn_filename, pad_layout, notes,
                   note_path_to_pitch, next_available_pitch, events, tmp_files, cwd_files>>

\* sys.exit(1) in notetuple_to_sample_number
UnexpectedBankSwitch ==
    /\ InLoop
    /\ ~IsEmptyNote(notes[idx])
    /\ notetuple_to_sample_number(notes[idx]) = << >>
    /\ pc' = "exited"
    /\ error' = "SystemExit"
    /\ stdout' = Append(stdout, Printed(notes[idx], << >>, 0, "unexpected value for bank_switch",
                                        time_in_beats_for_next_note, Len(events),
                                        Len(note_path_to_pitch)))
    /\ UNCHANGED <<inputs, sfz, smpl_dir, ptn_filename, pad_layout, notes, idx,
                   note_path_to_pitch, next_available_pitch,
                   time_in_beats_for_next_note, events, tmp_files, cwd_files>>

\* next() finds no directory entry: StopIteration.  The MKII program catches
\* it and goes on with the next note ("continue"); the SX program does not.
SampleNotFound ==
    /\ InLoop
    /\ Resolvable(notes[idx])
    /\ Matching(smpl_dir, notetuple_to_note_filename(notes[idx])) = { }
    /\ stdout' = Append(stdout, Printed(notes[idx], << >>, 0, "StopIteration",
                                        time_in_beats_for_next_note, Len(events),
                                        Len(note_path_to_pitch)))
    /\ IF device = "SX"
       THEN pc' = "crashed" /\ error' = "StopIteration" /\ idx' = idx
       ELSE pc' = pc /\ error' = error /\ idx' = idx + 1
    /\ UNCHANGED <<inputs, sfz, smpl_dir, ptn_filename, pad_layout, notes,
                   note_path_to_pitch, next_available_pitch,
                   time_in_beats_for_next_note, events, tmp_files, cwd_files>>

\* the entry found is no regular file: "skipping missing sample"
SkipMissingSample(e) ==
    /\ InLoop
    /\ Resolvable(notes[idx])
    /\ e \in Matching(smpl_dir, notetuple_to_note_filename(notes[idx]))
    /\ ~IsFile(smpl_dir, e.name)
    /\ note_path_to_pitch' = AssignPitch(note_path_to_pitch, next_available_pitch, e.name)
    /\ next_available_pitch' = NextPitch(note_path_to_pitch, next_available_pitch, e.name)
    /\ time_in_beats_for_next_note' = AdvanceTime(time_in_beats_for_next_note, notes[idx])
    /\ idx' = idx + 1
    /\ stdout' = Append(stdout, Printed(notes[idx], e.name, PitchOf(note_path_to_pitch', e.name),
                                        "skipping missing sample",
                                        time_in_beats_for_next_note', Len(events),
                                        Len(note_path_to_pitch')))
    /\ UNCHANGED <<inputs, sfz, smpl_dir, pc, error, ptn_filename, pad_layout, notes,
                   events, tmp_files, cwd_files>>

\* pads[sample_number] raises KeyError
PadLookupFails(e) ==
    /\ InLoop
    /\ Resolvable(notes[idx])
    /\ e \in Matching(smpl_dir, notetuple_to_note_filename(notes[idx]))
    /\ IsFile(smpl_dir, e.name)
    /\ notetuple_to_sample_number(notes[idx])[1] \notin DOMAIN pad_layout
    /\ note_path_to_pitch' = AssignPitch(note_path_to_pitch, next_available_pitch, e.name)
    /\ next_available_pitch' = NextPitch(note_path_to_pitch, next_available_pitch, e.name)
    /\ pc' = "crashed"
    /\ error' = "KeyError"
    /\ stdout' = Append(stdout, Printed(notes[idx], e.name, PitchOf(note_path_to_pitch', e.name),
                                        "KeyError", time_in_beats_for_next_note, Len(events),
                                        Len(note_path_to_pitch')))
    /\ UNCHANGED <<inputs, sfz, smpl_dir, ptn_filename, pad_layout, notes, idx,
                   time_in_beats_for_next_note, events, tmp_files, cwd_files>>

\* trim_wav_by_frame_numbers opens both files and setpos() raises
TrimFails(e) ==
    /\ InLoop
    /\ Resolvable(notes[idx])
    /\ e \in Matching(smpl_dir, notetuple_to_note_filename(notes[idx]))
    /\ IsFile(smpl_dir, e.name)
    /\ notetuple_to_sample_number(notes[idx])[1] \in DOMAIN pad_layout
    /\ SetposFails(WindowOf(notes[idx]), NFrames)
    /\ note_path_to_pitch' = AssignPitch(note_path_to_pitch, next_available_pitch, e.name)
    /\ next_available_pitch' = NextPitch(note_path_to_pitch, next_available_pitch, e.name)
    /\ smpl_dir' = AfterSox(smpl_dir, e.name)
    /\ tmp_files' = WriteTmp(tmp_files, e.name, WindowOf(notes[idx]), FALSE)
    /\ pc' = "crashed"
    /\ error' = "wave.Error"
    /\ stdout' = Append(stdout, Printed(notes[idx], e.name, PitchOf(note_path_to_pitch', e.name),
                                        "wave.Error", time_in_beats_for_next_note, Len(events),
                                        Len(note_path_to_pitch')))
    /\ UNCHANGED <<inputs, sfz, ptn_filename, pad_layout, notes, idx,
                   time_in_beats_for_next_note, events, cwd_files>>

\* the pass that trims the sample and calls midi_file.addNote
AddNote(e) ==
    /\ InLoop
    /\ Resolvable(notes[idx])
    /\ e \in Matching(smpl_dir, notetuple_to_note_filename(notes[idx]))
    /\ IsFile(smpl_dir, e.name)
    /\ notetuple_to_sample_number(notes[idx])[1] \in DOMAIN pad_layout
    /\ ~SetposFails(WindowOf(notes[idx]), NFrames)
    /\ note_path_to_pitch' = AssignPitch(note_path_to_pitch, next_available_pitch, e.name)
    /\ next_available_pitch' = NextPitch(note_path_to_pitch, next_available_pitch, e.name)
    /\ smpl_dir' = AfterSox(smpl_dir, e.name)
    /\ tmp_files' = WriteTmp(tmp_files, e.name, WindowOf(notes[idx]), TRUE)
    /\ events' = Append(events, [pitch    |-> PitchOf(note_path_to_pitch', e.name),
                                 time     |-> time_in_beats_for_next_note,
                                 duration |-> notes[idx].length])
    /\ time_in_beats_for_next_note' = AdvanceTime(time_in_beats_for_next_note, notes[idx])
    /\ idx' = idx + 1
    /\ stdout' = Append(stdout, Printed(notes[idx], e.name, PitchOf(note_path_to_pitch', e.name),
                                        "addNote", time_in_beats_for_next_note', Len(events'),
                                        Len(note_path_to_pitch')))
    /\ UNCHANGED <<inputs, sfz, pc, error, ptn_filename, pad_layout, notes, cwd_files>>

(***************************************************************************)
(* create_midi_file: the loop over note_path_to_pitch, then the MIDI file. *)
(***************************************************************************)
TemplateName(entry) ==
    <<"t", "e", "m", "p", "l", "a", "t", "e">>
    \o (IF device = "SX"
        THEN FormatD(entry.pitch - 35, 2) \o Suffix(OutfileName(entry.path))
        ELSE IntStr(entry.pitch - 35) \o <<".", "w", "a", "v">>)

CopyTemplates ==
    /\ pc = "for_notes"
    /\ idx > Len(notes)
    /\ cwd_files' = cwd_files \cup
           {TemplateName(note_path_to_pitch[k]) :
                k \in {j \in 1..Len(note_path_to_pitch) :
                           IsFile(smpl_dir, note_path_to_pitch[j].path)}}
    /\ pc' = "write_midi"
    /\ UNCHANGED <<inputs, sfz, smpl_dir, error, ptn_filename, pad_layout, notes,
                   loop_state, tmp_files>>

MidiName == <<"P", "T", "N", "_">> \o UpperStr(selected_pad) \o <<".", "m", "i", "d">>

WriteMidiFile ==
    /\ pc = "write_midi"
    /\ cwd_files' = cwd_files \cup {MidiName}
    /\ pc' = IF device = "SX" THEN "create_soundfont_file" ELSE "create_sfz"
    /\ UNCHANGED <<inputs, sfz, smpl_dir, error, ptn_filename, pad_layout, notes,
                   loop_state, tmp_files>>

(***************************************************************************)
(* create_sfz (MKII): one <region> line per note of the pattern, keys      *)
(* counted from start_key = 1.  notetuple_to_note_filename is called for   *)
(* every note, the rests included.                                         *)
(***************************************************************************)
\* the line printed for the k-th note: sample={stem}.wav key={k}
Region(k) ==
    [sample |-> notetuple_to_note_filename(notes[k]) \o <<".", "w", "a", "v">>,
     key    |-> k]

\* the notes on which notetuple_to_sample_number ends the run
BadNotes == {k \in 1..Len(notes) : notetuple_to_sample_number(notes[k]) = << >>}

CreateSfz ==
    /\ pc = "create_sfz"
    /\ BadNotes = { }
    /\ sfz' = [k \in 1..Len(notes) |-> Region(k)]
    /\ pc' = "done"
    /\ UNCHANGED <<inputs, smpl_dir, error, ptn_filename, pad_layout, notes,
                   loop_state, tmp_files, cwd_files>>

\* sys.exit(1) at the first note with an unexpected bank_switch; the lines
\* of the notes before it have been printed
CreateSfzExits ==
    /\ pc = "create_sfz"
    /\ BadNotes # { }
    /\ LET bad == CHOOSE k \in BadNotes : \A j \in BadNotes : k <= j
       IN  sfz' = [k \in 1..(bad - 1) |-> Region(k)]
    /\ pc' = "exited"
    /\ error' = "SystemExit"
    /\ UNCHANGED <<inputs, smpl_dir, ptn_filename, pad_layout, notes,
                   loop_state, tmp_files, cwd_files>>

(***************************************************************************)
(* create_soundfont_file (SX): pysf compiles template.xml into the .sf2.   *)
(***************************************************************************)
Sf2Name == <<"P", "T", "N", "_">> \o UpperStr(selected_pad) \o <<".", "s", "f", "2">>

CreateSoundfontFile ==
    /\ pc = "create_soundfont_file"
    /\ cwd_files' = cwd_files \cup {Sf2Name}
    /\ pc' = "done"
    /\ UNCHANGED <<inputs, sfz, smpl_dir, error, ptn_filename, pad_layout, notes,
                   loop_state, tmp_files>>

\* what the glob filter yields for notes[idx]; next() takes any one of them
Found ==
    IF InLoop /\ Resolvable(notes[idx])
    THEN Matching(smpl_dir, notetuple_to_note_filename(notes[idx]))
    ELSE { }

Next ==
    \/ GetPadInfo
    \/ GetPattern
    \/ GetPatternFails
    \/ SkipEmptyNote
    \/ UnexpectedBankSwitch
    \/ SampleNotFound
    \/ \E e \in Found : SkipMissingSample(e)
    \/ \E e \in Found : PadLookupFails(e)
    \/ \E e \in Found : TrimFails(e)
    \/ \E e \in Found : AddNote(e)
    \/ CopyTemplates
    \/ WriteMidiFile
    \/ CreateSfz
    \/ CreateSfzExits
    \/ CreateSoundfontFile

Spec == Init /\ [][Next]_vars

(***************************************************************************)
(* Properties.                                                             *)
(***************************************************************************)
RECURSIVE SumOfDelays(_)
SumOfDelays(ns) == IF Len(ns) = 0 THEN 0 ELSE Head(ns).delay + SumOfDelays(Tail(ns))

LoopFinished == pc \in {"write_midi", "create_sfz", "create_soundfont_file", "done"}

\* C1: once the loop has gone over every note the clock stands at
\* sum(note.delay) / ticks_per_quarter_note, whatever was skipped (both sides
\* are numerators over ticks_per_quarter_note).
C1_ElapsedIsSumOfDelays ==
    LoopFinished => time_in_beats_for_next_note = SumOfDelays(notes)

\* positions of the log at which a path was resolved, and those at which a
\* path was resolved for the first time
ResolvedAt == {k \in 1..Len(stdout) : stdout[k].note_path # << >>}

FirstAt == {k \in ResolvedAt : \A j \in ResolvedAt : j < k => stdout[j].note_path # stdout[k].note_path}

\* C2: a note gets the pitch 36 + r, where r is the number of distinct
\* samples resolved before the first occurrence of its own sample; the
\* event of the note carries that pitch.
C2_PitchesInFirstOccurrenceOrder ==
    LET firsts == FirstAt
    IN  \A k \in ResolvedAt :
            LET f == CHOOSE j \in firsts : stdout[j].note_path = stdout[k].note_path
                rank == Cardinality({j \in firsts : j < f})
            IN  /\ stdout[k].pitch = 36 + rank
                /\ stdout[k].outcome = "addNote" => events[stdout[k].n_events].pitch = 36 + rank

\* a run in which the sample of the higher pad and the later file name came
\* first and got 36, and the sample of pad 1 came second and got 37
C2_Witness ==
    /\ pc = "done"
    /\ Len(events) = 2
    /\ stdout[1].sample_number[1] > stdout[2].sample_number[1]
    /\ stdout[2].sample_number = <<1>>
    /\ events[1].pitch = 36
    /\ events[2].pitch = 37

\* C3: a note that is no rest has the sample number pad - 46 when its
\* bank_switch is 0 or 64 and pad - 46 + 5 * pads_per_bank when it is 1 or
\* 65; with any other bank_switch the run exits at that note and no sample
\* number is returned.
C3_SampleNumber ==
    \A k \in 1..Len(stdout) :
        LET n == stdout[k].note
            ppb == IF device = "SX" THEN 12 ELSE 16
        IN  n.pad # 128 =>
              /\ n.bank_switch \in {0, 64} => stdout[k].sample_number = <<n.pad - 46>>
              /\ n.bank_switch \in {1, 65} => stdout[k].sample_number = <<n.pad - 46 + 5 * ppb>>
              /\ n.bank_switch \notin {0, 1, 64, 65} =>
                    /\ stdout[k].sample_number = << >>
                    /\ k = Len(stdout)
                    /\ pc = "exited"
                    /\ error = "SystemExit"

\* bank_switch = 0, pad = 46 gave 0, and the run has then exited on a note
\* with bank_switch = 2
C3_Witness ==
    /\ pc = "exited"
    /\ Len(stdout) = 2
    /\ stdout[1].note.bank_switch = 0 /\ stdout[1].note.pad = 46
    /\ stdout[1].sample_number = <<0>>
    /\ stdout[2].note.bank_switch = 2
    /\ stdout[2].sample_number = << >>

\* the log entry before entry k: nothing emitted, nothing allocated, clock 0
EventsBefore(k) == IF k = 1 THEN 0 ELSE stdout[k - 1].n_events

PitchesBefore(k) == IF k = 1 THEN 0 ELSE stdout[k - 1].n_pitches

\* pass k of the loop took its note for a rest: no event, no sample
\* resolved, no pitch allocated, and the clock moved on by the delay
TreatedAsRest(k) ==
    /\ stdout[k].outcome = "skipping empty note"
    /\ stdout[k].n_events = EventsBefore(k)
    /\ stdout[k].n_pitches = PitchesBefore(k)
    /\ stdout[k].sample_number = << >>
    /\ stdout[k].note_path = << >>
    /\ stdout[k].next_time = stdout[k].time + stdout[k].note.delay

\* pass k went into sample resolution for its note
TreatedAsTrigger(k) == stdout[k].outcome # "skipping empty note"

\* C4 as stated: the rest code is pads_per_bank * banks.
C4_RestIsPadCount ==
    \A k \in 1..Len(stdout) :
        LET sentinel == 10 * (IF device = "SX" THEN 12 ELSE 16)
        IN  IF stdout[k].note.pad = sentinel THEN TreatedAsRest(k) ELSE TreatedAsTrigger(k)

\* C4, amended: a note is a rest exactly when its pad code is 128, for both
\* devices; a rest emits nothing, resolves nothing and advances the clock by
\* its delay, and every other note goes into sample resolution.
C4_RestIs128 ==
    \A k \in 1..Len(stdout) :
        IF stdout[k].note.pad = 128 THEN TreatedAsRest(k) ELSE TreatedAsTrigger(k)

\* a finished run whose first note has the pad code pads_per_bank * banks
\* and was emitted, and whose second note has the pad code 128 and was
\* passed over with its delay added to the clock
C4_Witness ==
    /\ pc = "done"
    /\ Len(stdout) = 2
    /\ stdout[1].note.pad = 10 * (IF device = "SX" THEN 12 ELSE 16)
    /\ stdout[1].outcome = "addNote"
    /\ stdout[2].note.pad = 128
    /\ stdout[2].note.delay = 1
    /\ stdout[2].next_time = stdout[2].time + 1
    /\ Len(events) = 1

DigitsValue(ds) == ParseInt(ds)

\* bank letter and pad number of the pattern names of the model
NameBank == IF selected_pad[1] = "A" THEN 0 ELSE 1

NameNumber == IF Len(selected_pad) = 3 THEN 11 ELSE 1

FilenameFollowsFormula ==
    LET ppb == IF device = "SX" THEN 12 ELSE 16
    IN  /\ Len(ptn_filename) = 12
        /\ SubSeq(ptn_filename, 1, 3) = <<"P", "T", "N">>
        /\ SubSeq(ptn_filename, 9, 12) = <<".", "B", "I", "N">>
        /\ \A k \in 4..8 : ptn_filename[k] \in {"0", "1", "2", "3", "4", "5", "6", "7", "8", "9"}
        /\ DigitsValue(SubSeq(ptn_filename, 4, 8)) = NameBank * ppb + (NameNumber % ppb)

\* C5 as stated: the formula, "A1" and "B11" with 12 pads per bank, and
\* "B1" giving PTN00012.BIN with 16 pads per bank.
C5_FilenameAsStated ==
    ptn_filename # << >> =>
        /\ FilenameFollowsFormula
        /\ (device = "SX" /\ selected_pad = <<"A", "1">>)
              => ptn_filename = <<"P","T","N","0","0","0","0","1",".","B","I","N">>
        /\ (device = "SX" /\ selected_pad = <<"B", "1", "1">>)
              => ptn_filename = <<"P","T","N","0","0","0","2","3",".","B","I","N">>
        /\ (device = "MKII" /\ selected_pad = <<"B", "1">>)
              => ptn_filename = <<"P","T","N","0","0","0","1","2",".","B","I","N">>

\* C5, amended: the formula, "A1" and "B11" with 12 pads per bank, and "B1"
\* giving PTN00017.BIN (1 * 16 + 1) with 16 pads per bank.
C5_Filename ==
    ptn_filename # << >> =>
        /\ FilenameFollowsFormula
        /\ (device = "SX" /\ selected_pad = <<"A", "1">>)
              => ptn_filename = <<"P","T","N","0","0","0","0","1",".","B","I","N">>
        /\ (device = "SX" /\ selected_pad = <<"B", "1", "1">>)
              => ptn_filename = <<"P","T","N","0","0","0","2","3",".","B","I","N">>
        /\ (device = "MKII" /\ selected_pad = <<"B", "1">>)
              => ptn_filename = <<"P","T","N","0","0","0","1","7",".","B","I","N">>

\* get_pattern has derived the file name of "B1" with 16 pads per bank
C5_Witness ==
    /\ device = "MKII"
    /\ selected_pad = <<"B", "1">>
    /\ pc = "for_notes"
    /\ ptn_filename = <<"P","T","N","0","0","0","1","7",".","B","I","N">>

GetPatternReturned == pc \notin {"get_pad_info", "get_pattern"} /\ error # "struct.error"

GetPatternFailed == pc = "crashed" /\ error = "struct.error" /\ notes = << >>

\* C6: get_pattern fails, returning no notes, when the file size is no
\* positive multiple of 8 or floor(size / 8) - 2 is negative; for a size of
\* 8 * (n + 2) it returns the n records of the file in file order.
C6_SizeIsValidated ==
    pc \notin {"get_pad_info", "get_pattern"} =>
        LET size == Len(ptn_file)
        IN  IF size = 0 \/ size % 8 # 0 \/ (size \div 8) - 2 < 0
            THEN GetPatternFailed
            ELSE /\ GetPatternReturned
                 /\ Len(notes) = (size \div 8) - 2
                 /\ \A k \in 1..Len(notes) :
                        /\ notes[k].delay = ptn_file[8 * (k - 1) + 1]
                        /\ notes[k].pad = ptn_file[8 * (k - 1) + 2]
                        /\ notes[k].bank_switch = ptn_file[8 * (k - 1) + 3]
                        /\ notes[k].length = 256 * ptn_file[8 * (k - 1) + 7] + ptn_file[8 * k]

WindowIsInvalid(f) ==
    f.end_frame = f.start_frame \/ f.start_frame < 0 \/ f.end_frame < 0
        \/ f.end_frame < f.start_frame

\* C7 (of the clips that were written in full): a clip whose window is empty, negative or inverted is the whole
\* sample, frame 0 to the native frame count, never of length <= 0; a clip
\* whose window is valid (and lies inside the sample) is that window.
C7_InvalidWindowGivesWholeSample ==
    \A f \in {g \in tmp_files : g.written} :
        /\ f.readframes > 0
        /\ WindowIsInvalid(f) => (f.setpos = 0 /\ f.readframes = NFrames)
        /\ (~WindowIsInvalid(f) /\ f.end_frame <= NFrames) =>
               (f.setpos = f.start_frame /\ f.readframes = f.end_frame - f.start_frame)

\* C8: when the run has ended on a bank_switch outside {0, 1, 64, 65}, no
\* MIDI file, no template sample and no trimmed sample has been written.
C8_AbortLeavesNoFiles ==
    (/\ pc = "exited"
     /\ Len(stdout) > 0
     /\ stdout[Len(stdout)].outcome = "unexpected value for bank_switch")
        => (cwd_files = { } /\ tmp_files = { })

\* C9: the start times of the events are non-decreasing in emission order
\* and no start time or duration is negative.
C9_StartTimesNonDecreasing ==
    /\ \A k \in 1..Len(events) : events[k].time >= 0 /\ events[k].duration >= 0
    /\ \A k \in 1..(Len(events) - 1) : events[k].time <= events[k + 1].time

\* two events, the second strictly later than the first
C9_Witness ==
    /\ pc = "done"
    /\ Len(events) = 2
    /\ events[1].time = 0
    /\ events[2].time = 2
    /\ events[2].duration = 256

\* C10: every event has a pitch in 0..127.
C10_PitchInMidiRange ==
    \A k \in 1..Len(events) : events[k].pitch \in 0..127

\* C11: when the MKII run has finished, the region lines are derived from
\* the pitch map: there is one region per resolved sample of
\* note_path_to_pitch, and the key of every region is the pitch that
\* create_midi_file assigned to the sample the region names.
C11_RegionsFollowPitchMap ==
    (pc = "done" /\ device = "MKII") =>
        /\ Len(sfz) = Len(note_path_to_pitch)
        /\ \A r \in 1..Len(sfz) :
               \E m \in 1..Len(note_path_to_pitch) :
                   /\ LowerStr(WithSuffixWav(note_path_to_pitch[m].path)) =
                          LowerStr(sfz[r].sample)
                   /\ sfz[r].key = note_path_to_pitch[m].pitch

\* C12: any two notes of one run that were emitted as events and resolve to
\* the same pad index (sample number) carry the same pitch.
C12_OnePitchPerPad ==
    \A i, j \in 1..Len(stdout) :
        (/\ stdout[i].outcome = "addNote"
         /\ stdout[j].outcome = "addNote"
         /\ stdout[i].sample_number = stdout[j].sample_number)
            => stdout[i].pitch = stdout[j].pitch

\* C13: every non-rest note with bank_switch in {0, 1, 64, 65} whose sample
\* file is found has a sample number in 1..TOTAL_BANKS * PADS_PER_BANK, and
\* the lookup of that number in the pad table does not fail.
C13_SampleNumberIsValidIndex ==
    \A k \in 1..Len(stdout) :
        (/\ ~IsEmptyNote(stdout[k].note)
         /\ stdout[k].note.bank_switch \in {0, 1, 64, 65}
         /\ stdout[k].note_path # << >>)
            => /\ stdout[k].sample_number[1] \in 1..PadCount(device)
               /\ stdout[k].outcome # "KeyError"
====
